---------------------------- MODULE Spec2Model ----------------------------
(***************************************************************************)
(* Model of imake (src/main.go): a gocui dashboard that lists Makefile     *)
(* targets, shows the documentation of the highlighted one, and on Enter   *)
(* runs `make <target>` and streams its stdout into the "command" view.    *)
(*                                                                         *)
(* The render loop is gocui's MainLoop: it takes one terminal event or one *)
(* queued update, runs its handler, and then flushes (runs the manager     *)
(* function and redraws).  g.Update(f) starts a goroutine that sends f on  *)
(* the user-event channel, so queued updates are consumed in no particular *)
(* order; `pending` is therefore a set.                                    *)
(***************************************************************************)
EXTENDS Integers, Sequences, FiniteSets, TLC

VARIABLES
    keys,        \* key events read from the terminal, not yet handled
    makefile,    \* the lines of the file "Makefile" (sequences of characters)
    targetsMap,  \* main.go:38   the catalog returned by readMakefile()
    fma,         \* whether the build rounds yPos+height once (fused multiply-add)
    termSize,    \* <<maxX, maxY>> as g.Size() reports it
    started,     \* main.go:36
    views,       \* gocui's view registry: name -> view
    loop,        \* "uninitialized" | "running" | "quit" | "panic"
    pending,     \* updates submitted with g.Update and not yet run
    execs,       \* started processes with their pump goroutines
    enters,      \* history: the line read by each Enter press (main.go:229)
    origin,      \* history: for each line written to "command", who wrote it
    failed,      \* history: the lines whose StdoutPipe()/Start() failed
    passes       \* history: number of completed render passes (capped at 2)

vars == <<keys, makefile, targetsMap, fma, termSize, started, views, loop, pending,
          execs, enters, origin, failed, passes>>

-----------------------------------------------------------------------------
(* Bounds *)

MaxDim == 16      \* largest terminal width and height of LayoutSpec
MaxEnter == 2     \* Enter presses per behaviour

(* Terminal sizes of LayoutSpec, and the terminal size of Spec. *)
TermSizes == (1..MaxDim) \X (1..MaxDim)
DefaultSize == <<12, 12>>

(* Catalogs readMakefile() may return: no target at all, or two targets.  *)
NoTargets == [k \in {} |-> ""]
TwoTargets == [k \in {"build", "test"} |->
                 IF k = "build" THEN "compile the project" ELSE "run unit tests"]
Catalogs == {NoTargets, TwoTargets}

(* What `make <target>` prints on stdout. *)
ProcOutput(target) ==
    CASE target = "build" -> <<"cc main.c", "ld main">>
      [] target = "test"  -> <<"PASS">>
      [] OTHER            -> <<>>

(* Lexicographic rank of the target names used above. *)
LexRank(name) == CASE name = "build" -> 1 [] name = "test" -> 2 [] OTHER -> 0

-----------------------------------------------------------------------------
(* The grid of main.go:24-34 *)

grid == << [Name |-> "Sidebar", Width |-> 3, Height |-> 10, XPos |-> 0, YPos |-> 0],
           [Name |-> "command", Width |-> 9, Height |-> 12, XPos |-> 3, YPos |-> 0],
           [Name |-> "help",    Width |-> 3, Height |-> 2,  XPos |-> 0, YPos |-> 10] >>


Names == {grid[i].Name : i \in 1..Len(grid)}

-----------------------------------------------------------------------------
(* gocui views *)

(* newView (gocui) as SetView creates it: empty buffer, cursor and origin  *)
(* at 0, no title, all flags off.  cx/ox are not modelled: every write and *)
(* cursor move of this program is at column 0.                             *)
newView(x0, y0, x1, y1) ==
    [x0 |-> x0, y0 |-> y0, x1 |-> x1, y1 |-> y1,
     Title |-> "", lines |-> <<>>, viewLines |-> 0, cy |-> 0, oy |-> 0,
     Highlight |-> FALSE, Autoscroll |-> FALSE, Wrap |-> FALSE]

(* View.Size(): the inner width and height. *)
SizeX(v) == v.x1 - v.x0 - 1
SizeY(v) == v.y1 - v.y0 - 1

(* View.Write for a text without newline: the runes extend the last line,  *)
(* or start the first line of an empty buffer.                             *)
WriteStr(lines, s) ==
    IF s = "" THEN lines
    ELSE IF Len(lines) > 0 THEN [lines EXCEPT ![Len(lines)] = @ \o s]
    ELSE <<s>>

(* View.Write for "\n": a new empty line is appended. *)
WriteNl(lines) == Append(lines, "")

(* fmt.Fprintln(v, s) and fmt.Fprintf(v, "%s\n", s) *)
Fprintln(lines, s) == WriteNl(WriteStr(lines, s))

(* View.Clear *)
Clear(v) == [v EXCEPT !.lines = <<>>, !.viewLines = 0]

(* View.Line(y) of a view that is not wrapped: realPosition maps the view  *)
(* row oy+y to the same buffer row; a row outside the buffer is an error.  *)
Line(v, y) ==
    LET vy == v.oy + y IN
    IF vy < 0 \/ vy >= Len(v.lines)
    THEN [err |-> TRUE, line |-> ""]
    ELSE [err |-> FALSE, line |-> v.lines[vy + 1]]

(* Variant of MoveCursor: the cursor also moves below the last view line. *)
MoveCursor_NoClamp(v, dy) ==
    LET cy == v.cy + dy IN
    IF cy < 0
    THEN IF v.oy > 0 THEN [v EXCEPT !.oy = @ - 1] ELSE v
    ELSE IF cy >= SizeY(v) THEN [v EXCEPT !.oy = @ + 1]
                           ELSE [v EXCEPT !.cy = cy]

(* View.MoveCursor(0, dy, false), vertical part. *)
MoveCursor(v, dy) ==
    LET cy == v.cy + dy IN
    IF cy < 0
    THEN IF v.oy > 0 THEN [v EXCEPT !.oy = @ - 1] ELSE v
    ELSE IF v.oy + cy < v.viewLines
         THEN IF cy >= SizeY(v) THEN [v EXCEPT !.oy = @ + 1]
                                ELSE [v EXCEPT !.cy = cy]
         ELSE v

(* Number of view lines View.draw makes of one buffer line. *)
WrapCount(len, maxX) == IF len < maxX THEN 1 ELSE (len \div maxX) + 1

RECURSIVE CountViewLines(_, _, _)
CountViewLines(lines, wrap, maxX) ==
    IF lines = <<>> THEN 0
    ELSE (IF wrap THEN WrapCount(Len(Head(lines)), maxX) ELSE 1)
         + CountViewLines(Tail(lines), wrap, maxX)

(* View.draw: a wrapped view of inner width 0 is an error; the view lines  *)
(* are recomputed (SetView taints every view on every pass) and an         *)
(* autoscrolling view moves its origin to show the last lines.             *)
drawErr(v) == v.Wrap /\ SizeX(v) = 0

draw(v) ==
    LET n == CountViewLines(v.lines, v.Wrap, SizeX(v)) IN
    [v EXCEPT !.viewLines = n,
              !.oy = IF v.Autoscroll /\ n > SizeY(v) THEN n - SizeY(v) ELSE @]

-----------------------------------------------------------------------------
(* GridLayout, main.go:128-167 *)

(* Sizes m for which the float64 sum 10*(m/12.0) + 2*(m/12.0) is below m   *)
(* when each product is rounded before the addition (IEEE 754 binary64,    *)
(* 1 <= m <= 64).  No other position/extent pair of the grid is inexact.   *)
SumBelow == {1, 2, 4, 8, 13, 16, 26, 29, 32, 49, 52, 55, 58, 61, 64}

(* int(float64(pos)*unit) with unit = float64(m)/12.0 *)
IntPos(pos, m) == (pos * m) \div 12

(* int(float64(pos)*unit + float64(ext)*unit) *)
IntEnd(pos, ext, m) ==
    IF ~fma /\ pos = 10 /\ ext = 2 /\ m \in SumBelow
    THEN ((pos + ext) * m) \div 12 - 1
    ELSE ((pos + ext) * m) \div 12

(* Variant of Rect: the right and bottom edges are not moved in by one. *)
Rect_NoMargin(section, maxX, maxY) ==
    [x0 |-> IntPos(section.XPos, maxX),
     y0 |-> IntPos(section.YPos, maxY),
     x1 |-> IntEnd(section.XPos, section.Width, maxX),
     y1 |-> IntEnd(section.YPos, section.Height, maxY)]

(* The rectangle GridLayout computes for one section, main.go:143-154. *)
Rect(section, maxX, maxY) ==
    LET x0 == IntPos(section.XPos, maxX)
        y0 == IntPos(section.YPos, maxY)
        x1 == IntEnd(section.XPos, section.Width, maxX) - 1
        y1 == IntEnd(section.YPos, section.Height, maxY) - 1
    IN  IF x1 <= 0 /\ y1 <= 0
        THEN [x0 |-> x0, y0 |-> y0, x1 |-> 1, y1 |-> 1]
        ELSE [x0 |-> x0, y0 |-> y0, x1 |-> x1, y1 |-> y1]

(* Gui.SetView: invalid dimensions are an error; an existing view only     *)
(* gets the new rectangle; an unknown name creates the view, and           *)
(* GridLayout then titles it with its name (main.go:157-163).              *)
SetViewErr(r) == r.x0 >= r.x1 \/ r.y0 >= r.y1

(* Variant of SetView: the view is created anew on every call. *)
SetView_Recreate(vs, name, r) ==
    [n \in DOMAIN vs \cup {name} |->
        IF n = name
        THEN [newView(r.x0, r.y0, r.x1, r.y1) EXCEPT !.Title = name]
        ELSE vs[n]]

SetView(vs, name, r) ==
    IF name \in DOMAIN vs
    THEN [vs EXCEPT ![name] = [@ EXCEPT !.x0 = r.x0, !.y0 = r.y0,
                                        !.x1 = r.x1, !.y1 = r.y1]]
    ELSE [n \in DOMAIN vs \cup {name} |->
            IF n = name
            THEN [newView(r.x0, r.y0, r.x1, r.y1) EXCEPT !.Title = name]
            ELSE vs[n]]

RECURSIVE GridLayoutFrom(_, _, _, _)
GridLayoutFrom(i, vs, maxX, maxY) ==
    IF i > Len(grid) THEN [err |-> FALSE, views |-> vs]
    ELSE LET r == Rect(grid[i], maxX, maxY) IN
         IF SetViewErr(r) THEN [err |-> TRUE, views |-> vs]
         ELSE GridLayoutFrom(i + 1, SetView(vs, grid[i].Name, r), maxX, maxY)

GridLayout(vs, maxX, maxY) == GridLayoutFrom(1, vs, maxX, maxY)

-----------------------------------------------------------------------------
(* initViews and updateViews, main.go:73-124 *)

(* The orders in which `range targetsMap` may yield the keys. *)
KeyOrders(m) ==
    {o \in [1..Cardinality(DOMAIN m) -> DOMAIN m] :
        \A i, j \in DOMAIN o : i # j => o[i] # o[j]}

RECURSIVE WriteKeys(_, _)
WriteKeys(lines, order) ==
    IF order = <<>> THEN lines
    ELSE WriteKeys(Fprintln(lines, Head(order)), Tail(order))

(* initViews also makes "Sidebar" the current view: it is the view every    *)
(* key handler receives.                                                   *)
initViews(vs, order) ==
    [vs EXCEPT !["Sidebar"] = [@ EXCEPT !.Title = "Makefile Targets",
                                        !.Highlight = TRUE,
                                        !.lines = WriteKeys(@, order)],
               !["command"] = [@ EXCEPT !.Title = "Command Output",
                                        !.Autoscroll = TRUE]]

(* updateViews ignores the error of v.Line: the line is then "". *)
DocOf(m, line) == IF line # "" /\ line \in DOMAIN m THEN m[line] ELSE ""

(* Variant of updateViews: the documentation view is not cleared first. *)
updateViews_NoClear(vs, m) ==
    LET line == Line(vs["Sidebar"], vs["Sidebar"].cy).line
        doc  == DocOf(m, line)
    IN  [vs EXCEPT !["help"] = [@ EXCEPT !.lines = WriteStr(@, doc),
                                         !.Wrap = IF doc # "" THEN TRUE ELSE @]]

updateViews(vs, m) ==
    LET line == Line(vs["Sidebar"], vs["Sidebar"].cy).line
        doc  == DocOf(m, line)
    IN  [vs EXCEPT !["help"] = [@ EXCEPT !.lines = WriteStr(<<>>, doc),
                                         !.viewLines = 0,
                                         !.Wrap = IF doc # "" THEN TRUE ELSE @]]

(* The drawing that ends a render pass: every view is drawn, and the first *)
(* error ends the pass.                                                    *)
drawAll(upd, isStarted) ==
    IF \E n \in DOMAIN upd : drawErr(upd[n])
    THEN [err |-> TRUE, views |-> upd, started |-> TRUE]
    ELSE [err |-> FALSE, views |-> [n \in DOMAIN upd |-> draw(upd[n])],
          started |-> TRUE]

(* Variant of flush: the manager function calls initViews on every pass. *)
flush_AlwaysInit(vs, size, isStarted, m, order) ==
    CHOOSE f \in
        {IF lay.err
         THEN [err |-> TRUE, views |-> lay.views, started |-> isStarted]
         ELSE CHOOSE d \in {drawAll(upd, isStarted) :
                               upd \in {initViews(lay.views, order)}} : TRUE :
            lay \in {GridLayout(vs, size[1], size[2])}} : TRUE

(* One render pass (gocui flush): the manager function of main.go:40-60    *)
(* and then the drawing of every view.  The result of GridLayout and the   *)
(* result of initViews/updateViews are each computed once and bound as     *)
(* lay and upd.                                                            *)
flush(vs, size, isStarted, m, order) ==
    CHOOSE f \in
        {IF lay.err
         THEN [err |-> TRUE, views |-> lay.views, started |-> isStarted]
         ELSE CHOOSE d \in {drawAll(upd, isStarted) :
                               upd \in {IF isStarted
                                        THEN updateViews(lay.views, m)
                                        ELSE initViews(lay.views, order)}} : TRUE :
            lay \in {GridLayout(vs, size[1], size[2])}} : TRUE

-----------------------------------------------------------------------------
(* readMakefile, main.go:282-309.  A line is a sequence of characters. *)

(* strings.Contains(line, sub) *)
Contains(line, sub) ==
    \E i \in 1..(Len(line) - Len(sub) + 1) :
        SubSeq(line, i, i + Len(sub) - 1) = sub

(* strings.HasPrefix(line, prefix) *)
HasPrefix(line, prefix) ==
    Len(line) >= Len(prefix) /\ SubSeq(line, 1, Len(prefix)) = prefix

(* The character class [a-zA-Z0-9_-] of the pattern at main.go:297. *)
Lower == {"a", "b", "c", "d", "e", "f", "g", "h", "i", "j", "k", "l", "m",
          "n", "o", "p", "q", "r", "s", "t", "u", "v", "w", "x", "y", "z"}
Upper == {"A", "B", "C", "D", "E", "F", "G", "H", "I", "J", "K", "L", "M",
          "N", "O", "P", "Q", "R", "S", "T", "U", "V", "W", "X", "Y", "Z"}
Digit == {"0", "1", "2", "3", "4", "5", "6", "7", "8", "9"}
TargetChar == Lower \cup Upper \cup Digit \cup {"_", "-"}

(* regexp.MustCompile(`^[a-zA-Z0-9_-]+:`).MatchString(line) *)
MatchString(line) ==
    \E n \in 1..(Len(line) - 1) :
        /\ \A i \in 1..n : line[i] \in TargetChar
        /\ line[n + 1] = ":"

(* strings.SplitN(line, ":", 2) of a line that contains a colon: the part  *)
(* before the first colon and the part after it.                           *)
SplitN(line) ==
    LET at == CHOOSE i \in 1..Len(line) :
                 line[i] = ":" /\ \A j \in 1..(i - 1) : line[j] # ":"
    IN  <<SubSeq(line, 1, at - 1), SubSeq(line, at + 1, Len(line))>>

(* The white space strings.TrimSpace removes (the ASCII part). *)
Space == {" ", "\t", "\n", "\r", "\f"}

RECURSIVE TrimLeft(_)
TrimLeft(t) ==
    IF t # <<>> /\ Head(t) \in Space THEN TrimLeft(Tail(t)) ELSE t

RECURSIVE TrimRight(_)
TrimRight(t) ==
    IF t # <<>> /\ t[Len(t)] \in Space
    THEN TrimRight(SubSeq(t, 1, Len(t) - 1)) ELSE t

(* Variant of TrimSpace: only leading white space is removed. *)
TrimSpace_LeftOnly(t) == TrimLeft(t)

(* strings.TrimSpace *)
TrimSpace(t) == TrimRight(TrimLeft(t))

(* The Go string made of the characters: the keys and values of the map   *)
(* are strings, as are the lines of the views.                             *)
RECURSIVE StringOf(_)
StringOf(t) == IF t = <<>> THEN "" ELSE Head(t) \o StringOf(Tail(t))

(* The condition of main.go:293-297 *)
IsTarget(line) ==
    /\ Contains(line, <<":">>)
    /\ ~HasPrefix(line, <<"\t">>)
    /\ ~HasPrefix(line, <<".">>)
    /\ ~Contains(line, <<"P", "H", "O", "N", "Y">>)
    /\ MatchString(line)

(* The loop of main.go:291-303: targetsMap[target] = doc for every target  *)
(* line, a later line replacing the entry of an earlier one.               *)
RECURSIVE ScanLines(_, _)
ScanLines(lines, m) ==
    IF lines = <<>> THEN m
    ELSE LET line == Head(lines) IN
         IF IsTarget(line)
         THEN LET target == StringOf(SplitN(line)[1])
                  doc    == StringOf(TrimSpace(SplitN(line)[2]))
              IN  ScanLines(Tail(lines),
                            [k \in DOMAIN m \cup {target} |->
                                IF k = target THEN doc ELSE m[k]])
         ELSE ScanLines(Tail(lines), m)

readMakefile(lines) == ScanLines(lines, [k \in {} |-> ""])

(* A Makefile with the targets build and test. *)
BuildTestMakefile ==
    <<
       <<"b", "u", "i", "l", "d", ":", " ", "c", "o", "m", "p", "i", "l", "e",
         " ", "t", "h", "e", " ", "p", "r", "o", "j", "e", "c", "t">>,
       <<"\t", "@", "e", "c", "h", "o", " ", "h", "i">>,
       <<".", "P", "H", "O", "N", "Y", ":", " ", "b", "u", "i", "l", "d", " ",
         "t", "e", "s", "t">>,
       <<"t", "e", "s", "t", ":", " ", "r", "u", "n", " ", "u", "n", "i", "t",
         " ", "t", "e", "s", "t", "s">>,
       <<"\t", "@", "g", "o", " ", "t", "e", "s", "t", " ", ".", "/", ".",
         ".", ".">>
    >>

(* A Makefile without target lines. *)
NoTargetMakefile ==
    <<
       <<"#", " ", "n", "o", "t", "h", "i", "n", "g", " ", "t", "o", " ", "b",
         "u", "i", "l", "d">>
    >>

(* The Makefiles of Spec and LayoutSpec. *)
Makefiles == {NoTargetMakefile, BuildTestMakefile}

-----------------------------------------------------------------------------
(* The render loop (gocui MainLoop, entered at main.go:68) *)

(* Spec: the render loop and the pumps on a terminal of DefaultSize, where  *)
(* the layout arithmetic is exact on every build.                          *)
Init ==
    /\ keys = <<>>
    /\ makefile \in Makefiles
    /\ targetsMap \in Catalogs
    /\ targetsMap = readMakefile(makefile)
    /\ fma = FALSE
    /\ termSize = DefaultSize
    /\ started = FALSE
    /\ views = [n \in {} |-> 0]
    /\ loop = "uninitialized"
    /\ pending = {}
    /\ execs = <<>>
    /\ enters = <<>>
    /\ origin = <<>>
    /\ failed = <<>>
    /\ passes = 0

(* The flush that ends every iteration of MainLoop, applied to the views   *)
(* the handler left.  An error of the manager function or of a draw ends   *)
(* MainLoop with that error, and main panics (main.go:68-70).              *)
Render(vs, size) ==
    \E order \in IF started THEN {<<>>} ELSE KeyOrders(targetsMap) :
        LET f == flush(vs, size, started, targetsMap, order) IN
        /\ views' = f.views
        /\ started' = f.started
        /\ loop' = IF f.err THEN "panic" ELSE "running"
        /\ passes' = IF f.err \/ passes = 2 THEN passes ELSE passes + 1

(* MainLoop flushes once before it waits for the first event. *)
Start ==
    /\ loop = "uninitialized"
    /\ Render(views, termSize)
    /\ UNCHANGED <<keys, makefile, targetsMap, fma, termSize, pending, execs,
                   enters, origin, failed>>

(* The terminal is resized: the event has no handler, the flush reads the  *)
(* new size.  One event changes the width or the height; a resize of both  *)
(* is two events.                                                          *)
Resize(size) ==
    /\ loop = "running"
    /\ size # termSize
    /\ size[1] = termSize[1] \/ size[2] = termSize[2]
    /\ termSize' = size
    /\ Render(views, size)
    /\ UNCHANGED <<keys, makefile, targetsMap, fma, pending, execs, enters,
                   origin, failed>>

(* cursorDown / cursorUp, main.go:217-225, on the current view "Sidebar". *)
cursorDown ==
    /\ loop = "running"
    /\ Render([views EXCEPT !["Sidebar"] = MoveCursor(@, 1)], termSize)
    /\ UNCHANGED <<makefile, targetsMap, fma, termSize, pending, execs,
                   enters, origin, failed>>

cursorUp ==
    /\ loop = "running"
    /\ Render([views EXCEPT !["Sidebar"] = MoveCursor(@, -1)], termSize)
    /\ UNCHANGED <<makefile, targetsMap, fma, termSize, pending, execs,
                   enters, origin, failed>>

(* The update executeCommand submits for the line it read, main.go:234. *)
ExecUpdate(press, line) ==
    [kind |-> "exec", id |-> press, idx |-> 0, text |-> line]

(* Variant of executeCommand: an unreadable line is skipped and the loop   *)
(* goes on.                                                                *)
executeCommand_Continue ==
    /\ loop = "running"
    /\ Len(enters) < MaxEnter
    /\ LET l == Line(views["Sidebar"], views["Sidebar"].cy) IN
       IF l.err
       THEN /\ Render(views, termSize)
            /\ UNCHANGED <<pending, enters>>
       ELSE /\ pending' = pending \cup {ExecUpdate(Len(enters) + 1, l.line)}
            /\ enters' = Append(enters, l.line)
            /\ Render(views, termSize)
    /\ UNCHANGED <<makefile, targetsMap, fma, termSize, execs, origin,
                   failed>>

(* executeCommand, main.go:227-277: an unreadable line is returned as an   *)
(* error, which ends MainLoop; otherwise the update is submitted.          *)
executeCommand ==
    /\ loop = "running"
    /\ Len(enters) < MaxEnter
    /\ LET l == Line(views["Sidebar"], views["Sidebar"].cy) IN
       IF l.err
       THEN /\ loop' = "panic"
            /\ UNCHANGED <<views, started, passes, pending, enters>>
       ELSE /\ pending' = pending \cup {ExecUpdate(Len(enters) + 1, l.line)}
            /\ enters' = Append(enters, l.line)
            /\ Render(views, termSize)
    /\ UNCHANGED <<makefile, targetsMap, fma, termSize, execs, origin,
                   failed>>

(* Variant of quit: the loop ends only when no pump is reading. *)
quit_WaitsForPumps ==
    /\ loop = "running"
    /\ \A e \in DOMAIN execs : execs[e].status # "streaming"
    /\ loop' = "quit"
    /\ UNCHANGED <<makefile, targetsMap, fma, termSize, started, views,
                   pending, execs, enters, origin, failed, passes>>

(* quit, main.go:278-280: ErrQuit ends MainLoop without a flush. *)
quit ==
    /\ loop = "running"
    /\ loop' = "quit"
    /\ UNCHANGED <<makefile, targetsMap, fma, termSize, started, views,
                   pending, execs, enters, origin, failed, passes>>

(* Outcomes of cmd.StdoutPipe() and cmd.Start(), main.go:245-253. *)
SpawnOutcomes == {"ok", "pipe failed", "start failed"}

(* Variant of NewExec: make is run without the target argument. *)
NewExec_NoTarget(line) == [args |-> <<>>, read |-> 0, status |-> "streaming"]

(* A new process with its pump goroutine, main.go:242-256. *)
NewExec(line) == [args |-> <<line>>, read |-> 0, status |-> "streaming"]

(* The line under the cursor of the selection view, "" if there is none. *)
Highlighted ==
    LET v == views["Sidebar"] IN
    IF v.oy + v.cy + 1 \in DOMAIN v.lines THEN v.lines[v.oy + v.cy + 1] ELSE ""

(* Variant of RunExec: make is run for the line that is highlighted when   *)
(* the update runs.                                                        *)
RunExec_Highlighted(press) ==
    /\ loop = "running"
    /\ \E u \in pending :
         /\ u.kind = "exec"
         /\ u.id = press
         /\ pending' = pending \ {u}
         /\ origin' = <<>>
         /\ \E outcome \in SpawnOutcomes :
              IF outcome = "ok"
              THEN /\ execs' = Append(execs, NewExec(Highlighted))
                   /\ Render([views EXCEPT !["command"] = Clear(@)], termSize)
                   /\ UNCHANGED failed
              ELSE /\ views' = [views EXCEPT !["command"] = Clear(@)]
                   /\ loop' = "panic"
                   /\ failed' = Append(failed, u.text)
                   /\ UNCHANGED <<execs, started, passes>>
    /\ UNCHANGED <<keys, makefile, targetsMap, fma, termSize, enters>>

(* Variant of RunExec: the output view is not cleared before the spawn. *)
RunExec_NoClear(press) ==
    /\ loop = "running"
    /\ \E u \in pending :
         /\ u.kind = "exec"
         /\ u.id = press
         /\ pending' = pending \ {u}
         /\ \E outcome \in SpawnOutcomes :
              IF outcome = "ok"
              THEN /\ execs' = Append(execs, NewExec(u.text))
                   /\ Render(views, termSize)
                   /\ UNCHANGED failed
              ELSE /\ loop' = "panic"
                   /\ failed' = Append(failed, u.text)
                   /\ UNCHANGED <<views, execs, started, passes>>
    /\ UNCHANGED <<keys, makefile, targetsMap, fma, termSize, enters, origin>>

(* The render loop runs the update that the given Enter press submitted    *)
(* (main.go:234-274): clear the output view, then spawn; a failed pipe or  *)
(* start is returned as an error.                                          *)
RunExec(press) ==
    /\ loop = "running"
    /\ \E u \in pending :
         /\ u.kind = "exec"
         /\ u.id = press
         /\ pending' = pending \ {u}
         /\ origin' = <<>>
         /\ \E outcome \in SpawnOutcomes :
              IF outcome = "ok"
              THEN /\ execs' = Append(execs, NewExec(u.text))
                   /\ Render([views EXCEPT !["command"] = Clear(@)], termSize)
                   /\ UNCHANGED failed
              ELSE /\ views' = [views EXCEPT !["command"] = Clear(@)]
                   /\ loop' = "panic"
                   /\ failed' = Append(failed, u.text)
                   /\ UNCHANGED <<execs, started, passes>>
    /\ UNCHANGED <<keys, makefile, targetsMap, fma, termSize, enters>>

(* The render loop runs an update of the pump of execution e (main.go      *)
(* 260-263 or 266-269): the line is written to the output view, whatever   *)
(* execution it comes from.                                                *)
RunWrite(e) ==
    /\ loop = "running"
    /\ \E u \in pending :
         /\ u.kind \in {"line", "readerr"}
         /\ u.id = e
         /\ pending' = pending \ {u}
         /\ origin' = Append(origin, [gen |-> u.id, idx |-> u.idx])
         /\ Render([views EXCEPT !["command"] =
                       [@ EXCEPT !.lines = Fprintln(@, u.text)]], termSize)
    /\ UNCHANGED <<keys, makefile, targetsMap, fma, termSize, execs, enters,
                   failed>>

-----------------------------------------------------------------------------
(* The pump goroutine of execution e, main.go:256-271 *)

(* Variant of PumpLine: the goroutine writes the line to the view itself. *)
PumpLine_Direct(e) ==
    /\ loop = "running"
    /\ e \in DOMAIN execs
    /\ execs[e].status = "streaming"
    /\ execs[e].read < Len(ProcOutput(execs[e].args[1]))
    /\ LET i == execs[e].read + 1 IN
       /\ views' = [views EXCEPT !["command"] =
             [@ EXCEPT !.lines = Fprintln(@, ProcOutput(execs[e].args[1])[i])]]
       /\ origin' = Append(origin, [gen |-> e, idx |-> i])
       /\ execs' = [execs EXCEPT ![e].read = i]
    /\ UNCHANGED <<keys, makefile, targetsMap, fma, termSize, started, loop,
                   pending, enters, failed, passes>>

(* scanner.Scan() returns a line: it is submitted as an update. *)
PumpLine(e) ==
    /\ loop = "running"
    /\ e \in DOMAIN execs
    /\ execs[e].status = "streaming"
    /\ execs[e].read < Len(ProcOutput(execs[e].args[1]))
    /\ LET i == execs[e].read + 1 IN
       /\ pending' = pending \cup
             {[kind |-> "line", id |-> e, idx |-> i,
               text |-> ProcOutput(execs[e].args[1])[i]]}
       /\ execs' = [execs EXCEPT ![e].read = i]
    /\ UNCHANGED <<keys, makefile, targetsMap, fma, termSize, started, views,
                   loop, enters, origin, failed, passes>>

(* scanner.Scan() returns false at end of stream: the goroutine ends. *)
PumpEOF(e) ==
    /\ loop = "running"
    /\ e \in DOMAIN execs
    /\ execs[e].status = "streaming"
    /\ execs[e].read = Len(ProcOutput(execs[e].args[1]))
    /\ execs' = [execs EXCEPT ![e].status = "eof"]
    /\ UNCHANGED <<keys, makefile, targetsMap, fma, termSize, started, views,
                   loop, pending, enters, origin, failed, passes>>

(* Variant of PumpErr: the goroutine goes on reading after the error. *)
PumpErr_KeepsReading(e) ==
    /\ loop = "running"
    /\ e \in DOMAIN execs
    /\ execs[e].status = "streaming"
    /\ pending' = pending \cup
          {[kind |-> "readerr", id |-> e, idx |-> 0,
            text |-> "Error reading command output: read error"]}
    /\ UNCHANGED <<keys, makefile, targetsMap, fma, termSize, started, views,
                   loop, execs, enters, origin, failed, passes>>

(* scanner.Scan() returns false on a read error: one diagnostic update is  *)
(* submitted and the goroutine ends.                                       *)
PumpErr(e) ==
    /\ loop = "running"
    /\ e \in DOMAIN execs
    /\ execs[e].status = "streaming"
    /\ pending' = pending \cup
          {[kind |-> "readerr", id |-> e, idx |-> 0,
            text |-> "Error reading command output: read error"]}
    /\ execs' = [execs EXCEPT ![e].status = "readerr"]
    /\ UNCHANGED <<keys, makefile, targetsMap, fma, termSize, started, views,
                   loop, enters, origin, failed, passes>>

(* In Spec and LayoutSpec a key is handled as it is pressed: the event     *)
(* queue stays empty.                                                      *)
Next ==
    \/ Start
    \/ cursorDown /\ UNCHANGED keys
    \/ cursorUp /\ UNCHANGED keys
    \/ executeCommand /\ UNCHANGED keys
    \/ quit /\ UNCHANGED keys
    \/ \E press \in 1..MaxEnter : RunExec(press)
    \/ \E e \in 1..MaxEnter : RunWrite(e)
    \/ \E e \in 1..MaxEnter : PumpLine(e)
    \/ \E e \in 1..MaxEnter : PumpEOF(e)
    \/ \E e \in 1..MaxEnter : PumpErr(e)

Spec == Init /\ [][Next]_vars

(* LayoutSpec: render passes on terminals of every size up to MaxDim, on   *)
(* either build, with navigation but without executions.                   *)
LayoutInit ==
    /\ keys = <<>>
    /\ makefile \in Makefiles
    /\ targetsMap \in Catalogs
    /\ targetsMap = readMakefile(makefile)
    /\ fma \in BOOLEAN
    /\ termSize \in TermSizes
    /\ started = FALSE
    /\ views = [n \in {} |-> 0]
    /\ loop = "uninitialized"
    /\ pending = {}
    /\ execs = <<>>
    /\ enters = <<>>
    /\ origin = <<>>
    /\ failed = <<>>
    /\ passes = 0

LayoutNext ==
    \/ Start
    \/ \E size \in TermSizes : Resize(size)
    \/ cursorDown /\ UNCHANGED keys
    \/ cursorUp /\ UNCHANGED keys

LayoutSpec == LayoutInit /\ [][LayoutNext]_vars

(* Number of elements of the sequence q that equal x. *)
RECURSIVE Count(_, _)
Count(q, x) ==
    IF q = <<>> THEN 0
    ELSE (IF Head(q) = x THEN 1 ELSE 0) + Count(Tail(q), x)

(* HangSpec: the keys go through the event queue of the terminal, so that  *)
(* a key can be pressed while the loop is busy; a process that hangs is a  *)
(* pump that takes no further step.                                        *)
MaxKeys == 2         \* key events waiting in the queue
MaxHangEnter == 1    \* Enter presses per behaviour of HangSpec

Keys == {"KeyArrowDown", "KeyArrowUp", "KeyEnter", "KeyCtrlC"}

(* keybindings, main.go:201-215: the handler bound to a key. *)
keybindings(k) ==
    CASE k = "KeyArrowDown" -> cursorDown
      [] k = "KeyArrowUp"   -> cursorUp
      [] k = "KeyEnter"     -> executeCommand
      [] k = "KeyCtrlC"     -> quit

(* The input goroutine of MainLoop reads a key from the terminal and       *)
(* queues it for the loop.                                                 *)
Press(k) ==
    /\ loop = "running"
    /\ Len(keys) < MaxKeys
    /\ k = "KeyEnter" => Count(keys, k) + Len(enters) < MaxHangEnter
    /\ keys' = Append(keys, k)
    /\ UNCHANGED <<makefile, targetsMap, fma, termSize, started, views, loop,
                   pending, execs, enters, origin, failed, passes>>

(* Variant of HandleKey: the loop handles keys only while no pump reads. *)
HandleKey_AfterPumps(k) ==
    /\ \A e \in DOMAIN execs : execs[e].status # "streaming"
    /\ keys # <<>>
    /\ Head(keys) = k
    /\ keys' = Tail(keys)
    /\ keybindings(k)

(* MainLoop takes the oldest key event and runs its handler. *)
HandleKey(k) ==
    /\ keys # <<>>
    /\ Head(keys) = k
    /\ keys' = Tail(keys)
    /\ keybindings(k)

HangInit == Init

HangNext ==
    \/ Start
    \/ \E k \in Keys : Press(k)
    \/ \E k \in Keys : HandleKey(k)
    \/ \E press \in 1..MaxEnter : RunExec(press)
    \/ \E e \in 1..MaxEnter : RunWrite(e)
    \/ \E e \in 1..MaxEnter : PumpLine(e)
    \/ \E e \in 1..MaxEnter : PumpEOF(e)
    \/ \E e \in 1..MaxEnter : PumpErr(e)

(* The loop goroutine is scheduled: a key event that waits in the queue is *)
(* eventually taken.  Nothing is assumed about the pumps or the processes. *)
HangSpec ==
    HangInit /\ [][HangNext]_vars /\ WF_vars(\E k \in Keys : HandleKey(k))

(* ParseSpec: readMakefile applied to bounded Makefiles.  A line is a      *)
(* concatenation of pieces; the piece PHONY stands for the marker of       *)
(* main.go:296.                                                            *)
MaxPieces == 4    \* pieces of the line of a one-line Makefile
MaxShort == 3     \* pieces of each line of a two-line Makefile

Pieces == {<<"a">>, <<"Z">>, <<"1">>, <<"_">>, <<"-">>, <<":">>, <<" ">>,
           <<"\t">>, <<".">>, <<"P", "H", "O", "N", "Y">>}
ShortPieces == {<<"a">>, <<"-">>, <<":">>, <<" ">>}

RECURSIVE LinesOf(_, _)
LinesOf(pieces, n) ==
    IF n = 0 THEN {<<>>}
    ELSE LET shorter == LinesOf(pieces, n - 1)
         IN  shorter \cup {l \o q : l \in shorter, q \in pieces}

ParseInputs ==
    Makefiles
        \cup {<<l>> : l \in LinesOf(Pieces, MaxPieces)}
        \cup {<<l, k>> : l \in LinesOf(ShortPieces, MaxShort),
                         k \in LinesOf(ShortPieces, MaxShort)}

(* main before main.go:38: the file is on disk, nothing has been read. *)
ParseInit ==
    /\ keys = <<>>
    /\ makefile \in ParseInputs
    /\ targetsMap = NoTargets
    /\ fma = FALSE
    /\ termSize = DefaultSize
    /\ started = FALSE
    /\ views = [n \in {} |-> 0]
    /\ loop = "unread"
    /\ pending = {}
    /\ execs = <<>>
    /\ enters = <<>>
    /\ origin = <<>>
    /\ failed = <<>>
    /\ passes = 0

(* targetsMap := readMakefile(), main.go:38 *)
LoadCatalog ==
    /\ loop = "unread"
    /\ targetsMap' = readMakefile(makefile)
    /\ loop' = "uninitialized"
    /\ UNCHANGED <<keys, makefile, fma, termSize, started, views, pending,
                   execs, enters, origin, failed, passes>>

ParseNext == LoadCatalog

ParseSpec == ParseInit /\ [][ParseNext]_vars

-----------------------------------------------------------------------------
(* Properties *)

(* The lines submitted by Enter presses whose update has not run yet. *)
PendingExecs(x) == Cardinality({u \in pending : u.kind = "exec" /\ u.text = x})

(* The argument lists of the processes started so far. *)
SpawnArgs == [i \in DOMAIN execs |-> execs[i].args]

(* C1: once a newer execution has cleared the output view, the view holds  *)
(* only lines of the most recently started execution: no line of an older  *)
(* execution is appended after that clear.                                 *)
C1_NoStaleOutput ==
    \A i \in DOMAIN origin : origin[i].gen = Len(execs)

(* C2: the lines of one execution stand in the output view in the order    *)
(* the process emitted them.                                               *)
C2_StreamOrder ==
    \A i, j \in DOMAIN origin :
        (i < j /\ origin[i].gen = origin[j].gen
               /\ origin[i].idx > 0 /\ origin[j].idx > 0)
            => origin[i].idx < origin[j].idx

(* C3: when the stdout pipe or the start of the process fails, the render  *)
(* loop keeps running and the output view shows one diagnostic line (a     *)
(* written line and the empty line that follows its newline).              *)
C3_SpawnFailureInline ==
    failed # <<>> =>
        /\ loop # "panic"
        /\ Len(views["command"].lines) = 2

(* C4 as stated: the processes started are exactly the Enter presses that  *)
(* read their line, each with that line as its only argument.              *)
C4_SpawnPerEnter ==
    SpawnArgs = [i \in DOMAIN enters |-> <<enters[i]>>]

(* C4 amended: every Enter press that read its line is accounted for       *)
(* exactly once: as a process started with that line as its only argument, *)
(* as an update that has not run yet, or as a failed pipe/start.           *)
C4_OneSpawnPerUpdate ==
    /\ \A i \in DOMAIN execs : Len(execs[i].args) = 1
    /\ \A x \in DOMAIN targetsMap \cup {""} :
          Count(SpawnArgs, <<x>>) + PendingExecs(x) + Count(failed, x)
              = Count(enters, x)
    /\ Len(execs) + Cardinality({u \in pending : u.kind = "exec"}) + Len(failed)
          = Len(enters)

(* Two presses on different lines have each started their process. *)
C4_Witness ==
    /\ Len(execs) = 2
    /\ execs[1].args # execs[2].args
    /\ enters = <<execs[1].args[1], execs[2].args[1]>>

(* C5: a step of a pump goroutine leaves every view as it is, and the      *)
(* content of the output view changes only in a step that takes an update  *)
(* out of the queue, that is, in a step of the render loop.                *)
C5_OnlyLoopWrites ==
    [][ /\ (\E e \in DOMAIN execs : execs'[e] # execs[e]) => views' = views
        /\ ("command" \in DOMAIN views
              /\ views'["command"].lines # views["command"].lines)
             => (pending' # pending /\ pending' \subseteq pending) ]_vars

(* Both lines of an execution have been read by its pump and written. *)
C5_Witness ==
    /\ Len(origin) = 2
    /\ \E e \in DOMAIN execs : execs[e].read = 2

(* The cells of a view's rectangle, frame included. *)
InBounds(v, size) ==
    /\ 0 <= v.x0 /\ v.x0 <= v.x1 /\ v.x1 <= size[1] - 1
    /\ 0 <= v.y0 /\ v.y0 <= v.y1 /\ v.y1 <= size[2] - 1

Disjoint(v, w) ==
    \/ v.x1 < w.x0 \/ w.x1 < v.x0
    \/ v.y1 < w.y0 \/ w.y1 < v.y0

(* C6: on a terminal of at least 12 columns and 12 rows every render pass  *)
(* succeeds and leaves each of the three views a rectangle inside the      *)
(* terminal, no two of them sharing a cell.                                *)
C6_LayoutInBounds ==
    (loop # "uninitialized" /\ termSize[1] >= 12 /\ termSize[2] >= 12) =>
        /\ loop = "running"
        /\ DOMAIN views = Names
        /\ \A n \in Names : InBounds(views[n], termSize)
        /\ \A n, k \in Names : n # k => Disjoint(views[n], views[k])

(* A 13x13 terminal, where the bottom edge of "help" is rounded down, has  *)
(* been laid out twice.                                                    *)
C6_Witness ==
    /\ loop = "running"
    /\ passes = 2
    /\ termSize = <<13, 13>>
    /\ ~fma
    /\ views["help"].y1 = 11

(* The fields of a view other than its rectangle. *)
State(v) == [v EXCEPT !.x0 = 0, !.y0 = 0, !.x1 = 0, !.y1 = 0]

(* The sizes the terminal may have at the next render pass. *)
NextSizes ==
    {size \in TermSizes : size[1] = termSize[1] \/ size[2] = termSize[2]}

(* C7: for the terminal size of the next render pass, GridLayout applied   *)
(* to its own result changes nothing, and GridLayout changes nothing but   *)
(* the rectangle of a view that exists: title, buffer, cursor row and      *)
(* origin stay.                                                            *)
C7_LayoutIdempotent ==
    \A size \in NextSizes :
        LET once  == GridLayout(views, size[1], size[2])
            twice == GridLayout(once.views, size[1], size[2])
        IN  /\ twice = once
            /\ \A n \in DOMAIN views :
                  /\ n \in DOMAIN once.views
                  /\ State(once.views[n]) = State(views[n])

(* The views hold keys, a documentation line and a moved cursor, and have  *)
(* been laid out for a resized terminal.                                   *)
C7_Witness ==
    /\ loop = "running"
    /\ passes = 2
    /\ termSize # DefaultSize
    /\ views["Sidebar"].cy = 1
    /\ views["Sidebar"].lines # <<>>
    /\ views["help"].lines # <<>>

(* C8: after every render pass but the first, the documentation view holds *)
(* the Catalog documentation of the highlighted line, and nothing when     *)
(* that line is empty or no Catalog key.                                   *)
C8_DocTracksSelection ==
    (passes = 2 /\ loop # "panic") =>
        IF Highlighted \in DOMAIN targetsMap /\ targetsMap[Highlighted] # ""
        THEN views["help"].lines = <<targetsMap[Highlighted]>>
        ELSE views["help"].lines = <<>>

(* The cursor is on the second key, Enter has been pressed, and the        *)
(* documentation of that key is shown.                                     *)
C8_Witness ==
    /\ passes = 2
    /\ views["Sidebar"].cy = 1
    /\ Highlighted \in DOMAIN targetsMap
    /\ views["help"].lines = <<targetsMap[Highlighted]>>
    /\ enters # <<>>

(* C9: the first render pass writes the Catalog keys into the selection    *)
(* view in lexicographic order.                                            *)
C9_SortedKeys ==
    started =>
        \A i, j \in DOMAIN views["Sidebar"].lines :
            (i < j /\ views["Sidebar"].lines[i] # ""
                   /\ views["Sidebar"].lines[j] # "")
                => LexRank(views["Sidebar"].lines[i])
                     < LexRank(views["Sidebar"].lines[j])

(* C10: once the only execution has reached end of stream and all its      *)
(* updates have run, the output view holds exactly the lines the process   *)
(* printed, in their order, and nothing else.                              *)
C10_CleanCompletion ==
    (/\ loop = "running"
     /\ Len(enters) = 1
     /\ Len(execs) = 1
     /\ execs[1].status = "eof"
     /\ pending = {})
        => views["command"].lines =
             WriteKeys(<<>>, ProcOutput(execs[1].args[1]))

-----------------------------------------------------------------------------
(* The target-line grammar, stated on the characters of a line. *)
FirstColon(line) ==
    CHOOSE c \in 1..Len(line) :
        line[c] = ":" /\ \A j \in 1..(c - 1) : line[j] # ":"

HasColon(line) == \E c \in 1..Len(line) : line[c] = ":"

HasPhony(line) ==
    \E i \in 1..(Len(line) - 4) :
        /\ line[i] = "P" /\ line[i + 1] = "H" /\ line[i + 2] = "O"
        /\ line[i + 3] = "N" /\ line[i + 4] = "Y"

Qualifies(line) ==
    /\ HasColon(line)
    /\ line[1] # "\t"
    /\ line[1] # "."
    /\ ~HasPhony(line)
    /\ FirstColon(line) > 1
    /\ \A j \in 1..(FirstColon(line) - 1) : line[j] \in TargetChar

KeyOf(line) == SubSeq(line, 1, FirstColon(line) - 1)
RestOf(line) == SubSeq(line, FirstColon(line) + 1, Len(line))

(* The sequences that are t without its surrounding white space *)
TrimsOf(t) ==
    {SubSeq(t, p[1], p[2]) :
        p \in {q \in (1..(Len(t) + 1)) \X (0..Len(t)) :
                  /\ q[1] <= q[2] + 1
                  /\ \A i \in 1..(q[1] - 1) : t[i] \in Space
                  /\ \A i \in (q[2] + 1)..Len(t) : t[i] \in Space
                  /\ q[1] <= q[2] => t[q[1]] \notin Space /\ t[q[2]] \notin Space}}

(* C11: the map readMakefile returns has exactly the keys of the lines     *)
(* that satisfy the target-line grammar, the key being the prefix up to    *)
(* the first colon, and the value of a key is the rest of the line after   *)
(* the first colon without its surrounding white space, taken from the     *)
(* last line with that key; no other line adds an entry.                   *)
C11_TargetGrammar ==
    loop # "unread" =>
        LET Q == {i \in 1..Len(makefile) : Qualifies(makefile[i])} IN
        /\ DOMAIN targetsMap = {StringOf(KeyOf(makefile[i])) : i \in Q}
        /\ \A i \in Q :
              (\A j \in Q : j > i => KeyOf(makefile[j]) # KeyOf(makefile[i]))
                  => targetsMap[StringOf(KeyOf(makefile[i]))]
                        \in {StringOf(v) : v \in TrimsOf(RestOf(makefile[i]))}

(* A file was read in which a target line has white space after its        *)
(* documentation, and one in which a line with a colon is no target line.  *)
C11_Witness ==
    /\ loop = "uninitialized"
    /\ Len(makefile) = 1
    /\ Qualifies(makefile[1])
    /\ RestOf(makefile[1]) # <<>>
    /\ RestOf(makefile[1])[Len(RestOf(makefile[1]))] \in Space
    /\ targetsMap[StringOf(KeyOf(makefile[1]))] # ""

-----------------------------------------------------------------------------
(* The rectangle GridLayout computes for section i on the current terminal, *)
(* and whether the pass gets as far as handing it to SetView.               *)
RectNow(i) == Rect(grid[i], termSize[1], termSize[2])
Passed(i) == \A j \in 1..(i - 1) : ~SetViewErr(RectNow(j))

(* C12: on every terminal size, once a render pass has run, every          *)
(* rectangle GridLayout handed to SetView has x1 >= x0 and y1 >= y0 and    *)
(* SetView did not reject it, so the layout pass did not fail.             *)
C12_ClampedLayout ==
    loop # "uninitialized" =>
        \A i \in 1..Len(grid) :
            Passed(i) => /\ RectNow(i).x1 >= RectNow(i).x0
                         /\ RectNow(i).y1 >= RectNow(i).y0
                         /\ ~SetViewErr(RectNow(i))

-----------------------------------------------------------------------------
(* C13: the first render pass runs initViews and not updateViews (the      *)
(* selection view gets its title and every Catalog key exactly once, the   *)
(* documentation view stays empty); no later step writes to the selection  *)
(* view, so every key stays there exactly once; and every later pass runs  *)
(* updateViews (the documentation view shows the highlighted key's text).  *)
C13_SetupOnce ==
    [][/\ (~started /\ loop' = "running") =>
              /\ started'
              /\ views'["Sidebar"].Title = "Makefile Targets"
              /\ \A k \in DOMAIN targetsMap :
                     Count(views'["Sidebar"].lines, k) = 1
              /\ views'["help"].lines = <<>>
       /\ started =>
              /\ started'
              /\ views'["Sidebar"].lines = views["Sidebar"].lines
              /\ \A k \in DOMAIN targetsMap :
                     Count(views["Sidebar"].lines, k) = 1
       /\ (started /\ loop' = "running") =>
              views'["help"].lines = WriteStr(<<>>, DocOf(targetsMap, Highlighted'))
      ]_vars

(* Several passes have run on a Catalog with two keys: each key is in the  *)
(* selection view once and the documentation view has been filled.         *)
C13_Witness ==
    /\ started
    /\ loop = "running"
    /\ passes = 2
    /\ DOMAIN targetsMap = {"build", "test"}
    /\ Count(views["Sidebar"].lines, "build") = 1
    /\ Count(views["Sidebar"].lines, "test") = 1
    /\ Len(views["Sidebar"].lines) = 3
    /\ views["help"].lines # <<>>
    /\ views["command"].lines # <<>>

-----------------------------------------------------------------------------
(* C14: an error returned by a key handler (Enter when the line under the  *)
(* cursor cannot be read) or by a queued update (a spawn that fails) ends  *)
(* the render loop, and after the loop has ended with an error no event is *)
(* handled, no update is applied and nothing else changes.                 *)
C14_HandlerErrorFatal ==
    [][/\ (executeCommand /\ enters' = enters) => loop' = "panic"
       /\ failed' # failed => loop' = "panic"
       /\ loop = "panic" => UNCHANGED vars
      ]_vars

(* A spawn failed while output lines of an earlier execution were still    *)
(* queued: the loop has ended and those updates stay unapplied.            *)
C14_Witness ==
    /\ loop = "panic"
    /\ failed # <<>>
    /\ \E u \in pending : u.kind = "line"

-----------------------------------------------------------------------------
(* The updates of the pump of execution e that a step submits. *)
Submitted(e) ==
    {u \in pending' \ pending : u.kind \in {"line", "readerr"} /\ u.id = e}

(* C15: the step in which the read of a pump fails submits exactly one     *)
(* update, the diagnostic, and leaves the render loop running; that pump   *)
(* submits nothing afterwards; a diagnostic is submitted by no other step, *)
(* in particular not at the end of the stream; and the render loop is      *)
(* still running after it has applied the diagnostic.                      *)
C15_ReadErrorOnce ==
    [][\A e \in DOMAIN execs :
          /\ (execs[e].status = "streaming" /\ execs'[e].status = "readerr")
                => /\ Cardinality(Submitted(e)) = 1
                   /\ \A u \in Submitted(e) : u.kind = "readerr"
                   /\ loop' = "running"
          /\ (\E u \in Submitted(e) : u.kind = "readerr")
                => (execs[e].status = "streaming" /\ execs'[e].status = "readerr")
          /\ execs[e].status \in {"readerr", "eof"}
                => (Submitted(e) = {} /\ execs'[e] = execs[e])
          /\ (execs[e].status = "streaming" /\ execs'[e].status = "eof")
                => Submitted(e) = {}
          /\ (\E u \in pending \ pending' : u.kind = "readerr" /\ u.id = e)
                => loop' = "running"
      ]_vars

(* A pump read a line, then its read failed; the diagnostic has been       *)
(* written to the output view and the loop is running.                     *)
C15_Witness ==
    /\ loop = "running"
    /\ \E e \in DOMAIN execs :
          /\ execs[e].status = "readerr"
          /\ execs[e].read >= 1
          /\ \E i \in DOMAIN origin : origin[i] = [gen |-> e, idx |-> 0]
          /\ ~\E u \in pending : u.kind = "readerr" /\ u.id = e

-----------------------------------------------------------------------------
(* C16: the quit key can be handled in every state of the running loop,    *)
(* whatever the pumps and the queue hold; handling it ends the loop in     *)
(* that step without applying an update or touching a view, a process or   *)
(* the queue; and after it no event is handled, no update is applied and   *)
(* nothing else changes.                                                   *)
C16_QuitImmediate ==
    [][/\ loop = "running" => ENABLED quit
       /\ quit => /\ loop' = "quit"
                  /\ views' = views
                  /\ pending' = pending
                  /\ execs' = execs
       /\ loop = "quit" => UNCHANGED vars
      ]_vars

(* The loop was quit while a pump was still reading and one of its lines   *)
(* was queued: the line stays unapplied.                                   *)
C16_Witness ==
    /\ loop = "quit"
    /\ \E e \in DOMAIN execs :
          /\ execs[e].status = "streaming"
          /\ execs[e].read < Len(ProcOutput(execs[e].args[1]))
          /\ \E u \in pending : u.kind = "line" /\ u.id = e

-----------------------------------------------------------------------------
-----------------------------------------------------------------------------
(* C18 as claimed: with a non-empty Catalog, after every event the cursor  *)
(* row of the selection view has changed by at most one, lies between 0    *)
(* and the number of lines minus one, and the line under the cursor is a   *)
(* Catalog key.                                                            *)
C18_CursorOnKey ==
    [][(loop' = "running" /\ DOMAIN targetsMap # {}) =>
          LET v == views'["Sidebar"] IN
          /\ started => v.cy - views["Sidebar"].cy \in {-1, 0, 1}
          /\ 0 <= v.cy
          /\ v.cy <= Len(v.lines) - 1
          /\ Highlighted' \in DOMAIN targetsMap
      ]_vars

(* C18: after every event the cursor row of the selection view has changed *)
(* by at most one and lies between 0 and the number of lines minus one (it *)
(* is 0 in a view without lines); the view has one line per Catalog key    *)
(* and an empty line after them, and the line under the cursor is a        *)
(* Catalog key or that empty last line.                                    *)
C18_CursorInBounds ==
    [][loop' = "running" =>
          LET v == views'["Sidebar"] IN
          /\ started => v.cy - views["Sidebar"].cy \in {-1, 0, 1}
          /\ 0 <= v.cy
          /\ 0 <= v.oy
          /\ IF DOMAIN targetsMap = {}
             THEN v.lines = <<>> /\ v.cy = 0 /\ v.oy = 0
             ELSE /\ Len(v.lines) = Cardinality(DOMAIN targetsMap) + 1
                  /\ v.oy + v.cy <= Len(v.lines) - 1
                  /\ v.lines[Len(v.lines)] = ""
                  /\ \A i \in 1..(Len(v.lines) - 1) : v.lines[i] \in DOMAIN targetsMap
          /\ Highlighted' \in DOMAIN targetsMap \cup {""}
      ]_vars

(* The cursor has been moved down to the empty line after the last key. *)
C18_Witness ==
    /\ loop = "running"
    /\ DOMAIN targetsMap # {}
    /\ views["Sidebar"].cy = Len(views["Sidebar"].lines) - 1
    /\ views["Sidebar"].cy = Cardinality(DOMAIN targetsMap)
    /\ Highlighted = ""

-----------------------------------------------------------------------------
(* C19: Enter records the line highlighted at the press, and the update    *)
(* that spawns the process runs make with exactly the line recorded by     *)
(* the press that submitted it, wherever the cursor is by then.            *)
C19_CapturedTarget ==
    [][/\ Len(enters') = Len(enters) + 1 =>
              /\ enters'[Len(enters')] = Highlighted
              /\ \E u \in pending' \ pending :
                    u = ExecUpdate(Len(enters'), Highlighted)
       /\ Len(execs') = Len(execs) + 1 =>
              \E u \in pending \ pending' :
                  /\ u.kind = "exec"
                  /\ execs'[Len(execs')].args = <<enters[u.id]>>
      ]_vars

(* Enter was pressed on one key, the cursor was moved, and the process was *)
(* then started for the key of the press.                                  *)
C19_Witness ==
    /\ loop = "running"
    /\ Len(enters) = 1
    /\ Len(execs) = 1
    /\ enters[1] \in DOMAIN targetsMap
    /\ execs[1].args = <<enters[1]>>
    /\ execs[1].read = 0
    /\ Highlighted \in DOMAIN targetsMap
    /\ Highlighted # enters[1]
    /\ passes = 2

-----------------------------------------------------------------------------
(* C20: the step that starts an execution and its pump is the step that    *)
(* clears the output view, and the new pump has read nothing yet; every    *)
(* line in the output view, and every line a pump has queued, comes from   *)
(* an execution that was started, and so cleared the view, in an earlier   *)
(* step; and lines leave the output view only in a step that runs the      *)
(* update of an Enter press, which is the clear of a later execution.      *)
C20_ClearBeforeOutput ==
    [][/\ Len(execs') = Len(execs) + 1 =>
              /\ views'["command"].lines = <<>>
              /\ origin' = <<>>
              /\ execs'[Len(execs')].read = 0
              /\ \A u \in pending' :
                    u.kind \in {"line", "readerr"} => u.id # Len(execs')
       /\ \A i \in DOMAIN origin' : origin'[i].gen \in DOMAIN execs
       /\ \A u \in pending' :
              u.kind \in {"line", "readerr"} => u.id \in DOMAIN execs
       /\ (started /\ ~(/\ Len(origin') >= Len(origin)
                        /\ SubSeq(origin', 1, Len(origin)) = origin
                        /\ Len(views'["command"].lines)
                              >= Len(views["command"].lines)))
              => \E u \in pending \ pending' : u.kind = "exec"
      ]_vars

(* A second execution cleared the output of the first; a line of the       *)
(* second has been written since and is in the output view.                *)
C20_Witness ==
    /\ loop = "running"
    /\ Len(execs) = 2
    /\ origin # <<>>
    /\ \A i \in DOMAIN origin : origin[i].gen = 2
    /\ execs[1].read >= 1
    /\ views["command"].lines # <<>>

=============================================================================
